---- MODULE Spec2Model ----
(***************************************************************************)
(* Model of main.py: md2pdf(md_file, output_file) and                      *)
(* md2html(md_file, output_file).  Each call reads a file fully, hands the *)
(* decoded text to a conversion library and writes the result.             *)
(*                                                                         *)
(* Files hold bytes (integers), text is a sequence of code points.         *)
(* A path is a sequence of components; the file system is a function from  *)
(* paths to contents plus a set of existing directories.                   *)
(***************************************************************************)
EXTENDS Integers, Sequences, FiniteSets

\* ---------------------------------------------------------------- bounds
\* Longest initial content of the Markdown file, in bytes.
MaxLen == 2

\* Calls the sequential caller makes one after the other.
MaxCalls == 2

\* Blockquote nesting at which the conversion library gives up.
NestLimit == 2

\* ------------------------------------------------------------ file system
\* Bytes the initial Markdown file is made of: space, '>', and the two
\* bytes of U+00E9 (0xC3 0xA9), so that invalid UTF-8 is reachable.
Bytes == {32, 62, 195, 169}

ByteSeqs(n) == UNION {[1..k -> Bytes] : k \in 0..n}

\* Marker for "no file at this path" (no byte is negative).
NoFile == <<-1>>

\* Content of a file that is already at an output path before a call: "x".
OldContent == <<120>>

InPath == <<"in.md">>
OutPath == <<"out">>
DeepPath == <<"nodir", "out">>
InPath2 == <<"in2.md">>
OutPath2 == <<"out2">>

Paths == {InPath, OutPath, DeepPath, InPath2, OutPath2}

\* Paths the sequential caller passes.
SeqPaths == {InPath, OutPath, DeepPath}

\* The working directory is the empty path.
Cwd == <<>>

Parent(path) == SubSeq(path, 1, Len(path) - 1)

Exists(f, path) == f[path] # NoFile

\* ------------------------------------------------------------------ UTF-8
\* open(..., "r", encoding="utf-8").read(): decode one- and two-byte
\* sequences; anything else is a UnicodeDecodeError.
RECURSIVE Utf8Decode(_)
Utf8Decode(b) ==
  IF b = <<>> THEN [ok |-> TRUE, text |-> <<>>]
  ELSE IF b[1] < 128
    THEN LET r == Utf8Decode(Tail(b))
         IN  IF r.ok THEN [ok |-> TRUE, text |-> <<b[1]>> \o r.text] ELSE r
  ELSE IF b[1] \in 194..223 /\ Len(b) >= 2 /\ b[2] \in 128..191
    THEN LET r == Utf8Decode(SubSeq(b, 3, Len(b)))
         IN  IF r.ok
             THEN [ok |-> TRUE,
                   text |-> <<(b[1] - 192) * 64 + (b[2] - 128)>> \o r.text]
             ELSE r
  ELSE [ok |-> FALSE, text |-> <<>>]

\* open(..., "w", encoding="utf-8").write(): encode code points below 2048.
RECURSIVE Utf8Encode(_)
Utf8Encode(s) ==
  IF s = <<>> THEN <<>>
  ELSE IF s[1] < 128 THEN <<s[1]>> \o Utf8Encode(Tail(s))
  ELSE <<192 + (s[1] \div 64), 128 + (s[1] % 64)>> \o Utf8Encode(Tail(s))

\* ------------------------------------------------- conversion capabilities
\* The two libraries are outside the repository (both import statements are
\* taken to succeed); they are modelled as the deterministic functions of
\* the text that main.py calls them as.
\* Code points: 32 space, 10 newline, 60 '<', 62 '>', 38 '&'.
IsSpace(c) == c \in {32, 10}

RECURSIVE LStrip(_)
LStrip(s) == IF s # <<>> /\ IsSpace(s[1]) THEN LStrip(Tail(s)) ELSE s

RECURSIVE RStrip(_)
RStrip(s) ==
  IF s # <<>> /\ IsSpace(s[Len(s)]) THEN RStrip(SubSeq(s, 1, Len(s) - 1)) ELSE s

\* str.strip()
Strip(s) == RStrip(LStrip(s))

\* Number of leading spaces of a line.
RECURSIVE Indent(_)
Indent(s) == IF s # <<>> /\ s[1] = 32 THEN 1 + Indent(Tail(s)) ELSE 0

\* A blockquote line: at most three spaces, then '>'.
IsQuote(s) == Indent(s) <= 3 /\ Len(s) > Indent(s) /\ s[Indent(s) + 1] = 62

\* The text inside a blockquote line: after the marker and one optional space.
QuoteBody(s) ==
  LET rest == SubSeq(s, Indent(s) + 2, Len(s))
  IN  IF rest # <<>> /\ rest[1] = 32 THEN Tail(rest) ELSE rest

RECURSIVE QuoteDepth(_)
QuoteDepth(s) == IF IsQuote(s) THEN 1 + QuoteDepth(QuoteBody(s)) ELSE 0

\* Text the library cannot process: nesting as deep as its limit.
Rejects(s) == QuoteDepth(s) >= NestLimit

\* HTML escaping of paragraph text.
RECURSIVE Escape(_)
Escape(s) ==
  IF s = <<>> THEN <<>>
  ELSE (CASE s[1] = 60  -> <<38, 108, 116, 59>>
          [] s[1] = 62  -> <<38, 103, 116, 59>>
          [] s[1] = 38 -> <<38, 97, 109, 112, 59>>
          [] OTHER      -> <<s[1]>>) \o Escape(Tail(s))

\* A block that starts with a complete tag is raw HTML and is kept as it is.
IsRawHtml(s) ==
  /\ Len(s) >= 3
  /\ s[1] = 60
  /\ s[2] \in (97..122) \cup {47}
  /\ \E i \in 3..Len(s) : s[i] = 62

POpen == <<60, 112, 62>>
PClose == <<60, 47, 112, 62>>
QuoteOpen == <<60, 98, 108, 111, 99, 107, 113, 117, 111, 116, 101, 62>>
QuoteClose == <<60, 47, 98, 108, 111, 99, 107, 113, 117, 111, 116, 101, 62>>

\* markdown.markdown(text) for one-line documents.  The library's convert()
\* starts with "if not source.strip(): return ''", so blank text gives the
\* empty string; a blockquote nests its body, a raw HTML block passes
\* through unchanged, anything else becomes an escaped paragraph.
RECURSIVE Markdown(_)
Markdown(s) ==
  IF Strip(s) = <<>> THEN <<>>
  ELSE IF IsQuote(s)
    THEN LET inner == Markdown(QuoteBody(s))
         IN  QuoteOpen \o <<10>>
               \o (IF inner = <<>> THEN <<>> ELSE inner \o <<10>>)
               \o QuoteClose
  ELSE IF IsRawHtml(Strip(s)) THEN Strip(s)
  ELSE POpen \o Escape(Strip(s)) \o PClose

PdfHeader == <<37, 80, 68, 70, 45>>
PdfBinaryMark == <<255>>
PdfTrailer == <<37, 37, 69, 79, 70>>

\* MarkdownPdf().add_section(Section(text)) followed by the bytes save()
\* emits: a PDF signature, a binary marker, the laid-out text, a trailer.
MarkdownPdf(s) == PdfHeader \o PdfBinaryMark \o Utf8Encode(s) \o PdfTrailer

\* ------------------------------------------------------------------ state
Threads == {1, 2}

Ops == {"md2pdf", "md2html"}

VARIABLES
  fs,           \* path -> bytes of the file there, or NoFile
  dirs,         \* directories that exist
  stdout,       \* lines printed so far
  pc,           \* thread -> position in the running call
  op,           \* thread -> function being run
  md_file,      \* thread -> argument md_file
  output_file,  \* thread -> argument output_file
  content,      \* frame -> md_content / markdown_text
  output,       \* frame -> html_output / the rendered document in pdf_obj
  handles,      \* thread -> file handles held: subset of {"in", "out"}
  err,          \* thread -> the exception that left the call, if any
  log,          \* thread -> the steps the running call has started
  fs0,          \* thread -> the file system when the running call started
  ncalls,       \* thread -> calls started so far
  prev          \* the call before the running one of thread 1

vars == <<fs, dirs, stdout, pc, op, md_file, output_file, content, output,
          handles, err, log, fs0, ncalls, prev>>

NoErr == [kind |-> "none", step |-> "none"]

NoCall == [op |-> "none", md_file |-> <<>>, output_file |-> <<>>,
           input |-> NoFile, result |-> NoFile, err |-> NoErr]

\* Variant: the output file is opened before the input is read.
OrderOutputFirst(o) ==
  IF o = "md2pdf"
  THEN <<"open_out", "open_in", "read", "close_in", "convert",
         "write", "close_out", "print">>
  ELSE <<"open_out", "open_in", "read", "close_in", "convert",
         "write", "close_out">>

\* The statements of the two functions, in program order.
Order(o) ==
  IF o = "md2pdf"
  THEN <<"open_in", "read", "close_in", "convert",
         "open_out", "write", "close_out", "print">>
  ELSE <<"open_in", "read", "close_in", "convert",
         "open_out", "write", "close_out">>

IndexOf(seq, x) == CHOOSE i \in 1..Len(seq) : seq[i] = x

\* The statement after statement p.
Succ(o, p) ==
  LET i == IndexOf(Order(o), p)
  IN  IF i = Len(Order(o)) THEN "done" ELSE Order(o)[i + 1]

\* Variant: the text and the result live in module-level variables.
FrameGlobal(t) == 1

\* Each invocation has its own frame of local variables.
Frame(t) == t

Goto(t) == pc' = [pc EXCEPT ![t] = Succ(op[t], pc[t])]

\* Variant: the exception is caught and dropped inside the function.
RaiseSwallowed(t, kind, step) ==
  /\ pc' = [pc EXCEPT ![t] = "done"]
  /\ err' = err

\* An exception leaves the function: nothing catches it.
Raise(t, kind, step) ==
  /\ pc' = [pc EXCEPT ![t] = "done"]
  /\ err' = [err EXCEPT ![t] = [kind |-> kind, step |-> step]]

\* Variant: the file is opened without a with block and never closed.
ReleaseNever(h, x) == h

\* The end of a with block closes the handle, on every exit path.
Release(h, x) == h \ {x}

\* Variant: a missing file is reported as a permission problem.
ReadOpenErrorWrongKind(f, path) ==
  IF Exists(f, path) THEN "none" ELSE "PermissionError"

\* open(path, "r"): the exception it raises, if any.
ReadOpenError(f, path) ==
  IF Exists(f, path) THEN "none" ELSE "FileNotFoundError"

\* Variant: missing directories are made on the way (os.makedirs).
CanCreateAnywhere(d, path) == TRUE

\* Opening for writing needs the parent directory; nothing creates it.
CanCreate(d, path) == Parent(path) \in d

\* Variant: the file is opened in append mode.
TruncateNever(f, path) ==
  IF Exists(f, path) THEN f ELSE [f EXCEPT ![path] = <<>>]

\* open(path, "w"): create the file or truncate it to zero bytes.
Truncate(f, path) == [f EXCEPT ![path] = <<>>]

\* Variant: the write call is missing.
WriteNothing(f, path, data) == f

\* write(): the bytes go after those already written through the handle.
WriteBytes(f, path, data) == [f EXCEPT ![path] = @ \o data]

\* Variant: an except clause removes the partial file.
RemoveAfterFailedWrite(f, path) == [f EXCEPT ![path] = NoFile]

\* A failed write leaves the file as it is: there is no cleanup code.
AfterFailedWrite(f, path) == f

HtmlShellOpen == <<60, 104, 116, 109, 108, 62>>
HtmlShellClose == <<60, 47, 104, 116, 109, 108, 62>>

\* Variant: the HTML is wrapped in a document shell.
ConvertedWithShell(o, text) ==
  IF o = "md2pdf" THEN MarkdownPdf(text)
  ELSE HtmlShellOpen \o Utf8Encode(Markdown(text)) \o HtmlShellClose

\* What the conversion step hands to the write step.
Converted(o, text) ==
  IF o = "md2pdf" THEN MarkdownPdf(text) ELSE Utf8Encode(Markdown(text))

Line(path) == <<"PDF generated successfully as", path>>

\* A file system with content a at InPath, b at OutPath and c at InPath2.
Disk(a, b, c) ==
  [p \in Paths |-> IF p = InPath THEN a
                   ELSE IF p = OutPath THEN b
                   ELSE IF p = InPath2 THEN c
                   ELSE NoFile]

\* The shortest document the conversion gives up on.
TooDeep == [k \in 1..NestLimit |-> 62]

Init ==
  /\ fs \in {Disk(a, b, NoFile) : a \in ByteSeqs(MaxLen) \cup {NoFile, TooDeep},
                                  b \in {NoFile, OldContent}}
  /\ dirs = {Cwd}
  /\ stdout = <<>>
  /\ pc = [t \in Threads |-> "idle"]
  /\ op = [t \in Threads |-> "none"]
  /\ md_file = [t \in Threads |-> <<>>]
  /\ output_file = [t \in Threads |-> <<>>]
  /\ content = [t \in Threads |-> <<>>]
  /\ output = [t \in Threads |-> <<>>]
  /\ handles = [t \in Threads |-> {}]
  /\ err = [t \in Threads |-> NoErr]
  /\ log = [t \in Threads |-> <<>>]
  /\ fs0 = [t \in Threads |-> fs]
  /\ ncalls = [t \in Threads |-> 0]
  /\ prev = NoCall

\* The caller invokes o(i, u) on thread t.
Begin(t, o, i, u) ==
  /\ pc' = [pc EXCEPT ![t] = Order(o)[1]]
  /\ op' = [op EXCEPT ![t] = o]
  /\ md_file' = [md_file EXCEPT ![t] = i]
  /\ output_file' = [output_file EXCEPT ![t] = u]
  /\ content' = [content EXCEPT ![Frame(t)] = <<>>]
  /\ output' = [output EXCEPT ![Frame(t)] = <<>>]
  /\ err' = [err EXCEPT ![t] = NoErr]
  /\ log' = [log EXCEPT ![t] = <<>>]
  /\ fs0' = [fs0 EXCEPT ![t] = fs]
  /\ ncalls' = [ncalls EXCEPT ![t] = @ + 1]
  /\ UNCHANGED <<fs, dirs, stdout, handles>>

\* What thread 1's finished call leaves for the next one to compare with.
Finished ==
  [op |-> op[1], md_file |-> md_file[1], output_file |-> output_file[1],
   input |-> fs0[1][md_file[1]], result |-> fs[output_file[1]],
   err |-> err[1]]

\* The program is run: one call of o(i, u).
Call(o, i, u) ==
  /\ pc[1] = "idle"
  /\ prev' = NoCall
  /\ Begin(1, o, i, u)

\* The program is run once more, unchanged: the same call again.
Again ==
  /\ pc[1] = "done"
  /\ ncalls[1] < MaxCalls
  /\ prev' = Finished
  /\ Begin(1, op[1], md_file[1], output_file[1])

\* with open(md_file, "r", encoding="utf-8") as f -- the file is missing.
OpenInFail(t) ==
  /\ pc[t] = "open_in"
  /\ ReadOpenError(fs, md_file[t]) # "none"
  /\ log' = [log EXCEPT ![t] = Append(@, "read")]
  /\ Raise(t, ReadOpenError(fs, md_file[t]), "read")
  /\ UNCHANGED <<fs, dirs, stdout, op, md_file, output_file, content, output,
                 handles, fs0, ncalls, prev>>

OpenInOk(t) ==
  /\ pc[t] = "open_in"
  /\ ReadOpenError(fs, md_file[t]) = "none"
  /\ log' = [log EXCEPT ![t] = Append(@, "read")]
  /\ handles' = [handles EXCEPT ![t] = @ \cup {"in"}]
  /\ Goto(t)
  /\ UNCHANGED <<fs, dirs, stdout, op, md_file, output_file, content, output,
                 err, fs0, ncalls, prev>>

\* f.read() on bytes that are not UTF-8; the with block closes the handle.
ReadFail(t) ==
  /\ pc[t] = "read"
  /\ ~Utf8Decode(fs[md_file[t]]).ok
  /\ handles' = [handles EXCEPT ![t] = Release(@, "in")]
  /\ Raise(t, "UnicodeDecodeError", "read")
  /\ UNCHANGED <<fs, dirs, stdout, op, md_file, output_file, content, output,
                 log, fs0, ncalls, prev>>

\* md_content = f.read() / markdown_text = f.read()
ReadOk(t) ==
  /\ pc[t] = "read"
  /\ Utf8Decode(fs[md_file[t]]).ok
  /\ content' = [content EXCEPT ![Frame(t)] = Utf8Decode(fs[md_file[t]]).text]
  /\ Goto(t)
  /\ UNCHANGED <<fs, dirs, stdout, op, md_file, output_file, output, handles,
                 err, log, fs0, ncalls, prev>>

\* Leaving the with block of the input file.
CloseIn(t) ==
  /\ pc[t] = "close_in"
  /\ handles' = [handles EXCEPT ![t] = Release(@, "in")]
  /\ Goto(t)
  /\ UNCHANGED <<fs, dirs, stdout, op, md_file, output_file, content, output,
                 err, log, fs0, ncalls, prev>>

\* add_section(Section(md_content)) / markdown.markdown(markdown_text) raises.
ConvertFail(t) ==
  /\ pc[t] = "convert"
  /\ Rejects(content[Frame(t)])
  /\ log' = [log EXCEPT ![t] = Append(@, "convert")]
  /\ Raise(t, IF op[t] = "md2pdf" THEN "RenderError" ELSE "TransformError",
           "convert")
  /\ UNCHANGED <<fs, dirs, stdout, op, md_file, output_file, content, output,
                 handles, fs0, ncalls, prev>>

ConvertOk(t) ==
  /\ pc[t] = "convert"
  /\ ~Rejects(content[Frame(t)])
  /\ log' = [log EXCEPT ![t] = Append(@, "convert")]
  /\ output' = [output EXCEPT ![Frame(t)] = Converted(op[t], content[Frame(t)])]
  /\ Goto(t)
  /\ UNCHANGED <<fs, dirs, stdout, op, md_file, output_file, content, handles,
                 err, fs0, ncalls, prev>>

\* pdf_obj.save(output_file) / open(output_file, "w") cannot create the file.
OpenOutFail(t) ==
  /\ pc[t] = "open_out"
  /\ ~CanCreate(dirs, output_file[t])
  /\ log' = [log EXCEPT ![t] = Append(@, "write")]
  /\ Raise(t, "WriteError", "open_out")
  /\ UNCHANGED <<fs, dirs, stdout, op, md_file, output_file, content, output,
                 handles, fs0, ncalls, prev>>

OpenOutOk(t) ==
  /\ pc[t] = "open_out"
  /\ CanCreate(dirs, output_file[t])
  /\ log' = [log EXCEPT ![t] = Append(@, "write")]
  /\ fs' = Truncate(fs, output_file[t])
  /\ handles' = [handles EXCEPT ![t] = @ \cup {"out"}]
  /\ Goto(t)
  /\ UNCHANGED <<dirs, stdout, op, md_file, output_file, content, output, err,
                 fs0, ncalls, prev>>

\* The device fails after k bytes of the output went out.
WriteFail(t, k) ==
  /\ pc[t] = "write"
  /\ k < Len(output[Frame(t)])
  /\ fs' = AfterFailedWrite(
             WriteBytes(fs, output_file[t], SubSeq(output[Frame(t)], 1, k)),
             output_file[t])
  /\ handles' = [handles EXCEPT ![t] = Release(@, "out")]
  /\ Raise(t, "WriteError", "write")
  /\ UNCHANGED <<dirs, stdout, op, md_file, output_file, content, output, log,
                 fs0, ncalls, prev>>

\* f.write(html_output) / the bytes pdf_obj.save writes.
WriteOk(t) ==
  /\ pc[t] = "write"
  /\ fs' = WriteBytes(fs, output_file[t], output[Frame(t)])
  /\ Goto(t)
  /\ UNCHANGED <<dirs, stdout, op, md_file, output_file, content, output,
                 handles, err, log, fs0, ncalls, prev>>

\* Leaving the with block of the output file.
CloseOut(t) ==
  /\ pc[t] = "close_out"
  /\ handles' = [handles EXCEPT ![t] = Release(@, "out")]
  /\ Goto(t)
  /\ UNCHANGED <<fs, dirs, stdout, op, md_file, output_file, content, output,
                 err, log, fs0, ncalls, prev>>

\* print(f"PDF generated successfully as {output_file}")
Report(t) ==
  /\ pc[t] = "print"
  /\ log' = [log EXCEPT ![t] = Append(@, "print")]
  /\ stdout' = Append(stdout, Line(output_file[t]))
  /\ Goto(t)
  /\ UNCHANGED <<fs, dirs, op, md_file, output_file, content, output, handles,
                 err, fs0, ncalls, prev>>

MaxOut == 64

Next ==
  \/ \E o \in Ops, i \in SeqPaths, u \in SeqPaths : Call(o, i, u)
  \/ Again
  \/ OpenInFail(1)
  \/ OpenInOk(1)
  \/ ReadFail(1)
  \/ ReadOk(1)
  \/ CloseIn(1)
  \/ ConvertFail(1)
  \/ ConvertOk(1)
  \/ OpenOutFail(1)
  \/ OpenOutOk(1)
  \/ \E k \in 0..MaxOut : WriteFail(1, k)
  \/ WriteOk(1)
  \/ CloseOut(1)
  \/ Report(1)

Spec == Init /\ [][Next]_vars

\* ------------------------------------------------- two calls at the same time
\* The files each thread works on: the two sets are disjoint.
InputsOf(t) == IF t = 1 THEN {InPath} ELSE {InPath2}

OutputsOf(t) == IF t = 1 THEN {OutPath, DeepPath} ELSE {OutPath2}

\* One input of each kind: missing, blank, text, too deep, not UTF-8.
ConcDocs == {NoFile, <<32>>, <<195, 169>>, TooDeep, <<195>>}

InitConc ==
  /\ fs \in {Disk(a, b, c) : a \in ConcDocs, b \in {NoFile, OldContent},
                             c \in ConcDocs}
  /\ dirs = {Cwd}
  /\ stdout = <<>>
  /\ pc = [t \in Threads |-> "idle"]
  /\ op = [t \in Threads |-> "none"]
  /\ md_file = [t \in Threads |-> <<>>]
  /\ output_file = [t \in Threads |-> <<>>]
  /\ content = [t \in Threads |-> <<>>]
  /\ output = [t \in Threads |-> <<>>]
  /\ handles = [t \in Threads |-> {}]
  /\ err = [t \in Threads |-> NoErr]
  /\ log = [t \in Threads |-> <<>>]
  /\ fs0 = [t \in Threads |-> fs]
  /\ ncalls = [t \in Threads |-> 0]
  /\ prev = NoCall

\* Thread t calls one function, the other thread calls the other one.
CallConc(t, o, i, u) ==
  /\ pc[t] = "idle"
  /\ \A other \in Threads \ {t} : op[other] # o
  /\ Begin(t, o, i, u)
  /\ UNCHANGED prev

NextConc ==
  \/ \E t \in Threads, o \in Ops :
       \E i \in InputsOf(t), u \in OutputsOf(t) : CallConc(t, o, i, u)
  \/ \E t \in Threads : OpenInFail(t)
  \/ \E t \in Threads : OpenInOk(t)
  \/ \E t \in Threads : ReadFail(t)
  \/ \E t \in Threads : ReadOk(t)
  \/ \E t \in Threads : CloseIn(t)
  \/ \E t \in Threads : ConvertFail(t)
  \/ \E t \in Threads : ConvertOk(t)
  \/ \E t \in Threads : OpenOutFail(t)
  \/ \E t \in Threads : OpenOutOk(t)
  \/ \E t \in Threads, k \in 0..MaxOut : WriteFail(t, k)
  \/ \E t \in Threads : WriteOk(t)
  \/ \E t \in Threads : CloseOut(t)
  \/ \E t \in Threads : Report(t)

SpecConc == InitConc /\ [][NextConc]_vars

\* ---------------------------------------------------------------- properties
Done(t) == pc[t] = "done"

Failed(t, kind, step) == err[t] = [kind |-> kind, step |-> step]

\* The text of the input file as it was when the call of t started.
InputText(t) == Utf8Decode(fs0[t][md_file[t]]).text

IsPrefix(a, b) == Len(a) <= Len(b) /\ a = SubSeq(b, 1, Len(a))

\* The steps of a function, as the log names them.
Steps(o) ==
  IF o = "md2pdf" THEN <<"read", "convert", "write", "print">>
  ELSE <<"read", "convert", "write">>

\* The log entry of the step an exception came from.
StepOf(e) == IF e.step = "open_out" THEN "write" ELSE e.step

\* C1: a call whose input path names no file ends with FileNotFoundError
\* from the read, and when there was no file at output_file before the
\* call there is none after it.
C1_MissingInput ==
  \A t \in Threads :
    (Done(t) /\ ~Exists(fs0[t], md_file[t])) =>
      /\ Failed(t, "FileNotFoundError", "read")
      /\ (~Exists(fs0[t], output_file[t]) => ~Exists(fs, output_file[t]))

C1_Witness ==
  /\ Done(1) /\ op[1] = "md2pdf"
  /\ ~Exists(fs0[1], md_file[1])
  /\ md_file[1] # output_file[1]
  /\ Parent(output_file[1]) \in dirs
  /\ ~Exists(fs0[1], output_file[1])
  /\ Failed(1, "FileNotFoundError", "read")
  /\ ~Exists(fs, output_file[1])

\* C2: after a successful md2html the output file holds exactly the UTF-8
\* encoding of the transformer's result for the whole input text: nothing
\* before it, nothing after it, nothing of the file's earlier content.
C2_ExactOutput ==
  \A t \in Threads :
    (Done(t) /\ op[t] = "md2html" /\ err[t] = NoErr) =>
      fs[output_file[t]] = Utf8Encode(Markdown(InputText(t)))

C2_Witness ==
  /\ Done(1) /\ op[1] = "md2html" /\ err[1] = NoErr
  /\ fs0[1][output_file[1]] = OldContent
  /\ fs0[1][md_file[1]] = <<195, 169>>
  /\ fs[output_file[1]] = <<60, 112, 62, 195, 169, 60, 47, 112, 62>>

\* A run that the device cut short while the output was being written.
CutShort(e) == e.step = "write"

\* C3: running md2html again with the same two paths leaves at the output
\* path the bytes the run before left there, provided no device failure cut
\* either run short.
C3_Idempotent ==
  (Done(1) /\ op[1] = "md2html" /\ prev.op = "md2html"
     /\ ~CutShort(prev.err) /\ ~CutShort(err[1])) =>
    fs[output_file[1]] = prev.result

C3_Witness ==
  /\ Done(1) /\ op[1] = "md2html" /\ prev.op = "md2html"
  /\ prev.err = NoErr /\ err[1] = NoErr
  /\ prev.md_file = md_file[1] /\ prev.output_file = output_file[1]
  /\ fs[output_file[1]] = prev.result
  /\ Len(prev.result) > 0

\* C4: a call whose output path lies in a directory that does not exist
\* fails and leaves files and directories as they were; the failure is the
\* WriteError from opening the output whenever the call gets that far.
C4_MissingDirectory ==
  \A t \in Threads :
    (Done(t) /\ Parent(output_file[t]) # Cwd) =>
      /\ err[t] # NoErr
      /\ (err[t].step \notin {"read", "convert"} =>
            Failed(t, "WriteError", "open_out"))
      /\ fs = fs0[t]
      /\ dirs = {Cwd}

C4_Witness ==
  /\ Done(1) /\ op[1] = "md2html"
  /\ output_file[1] = DeepPath
  /\ Failed(1, "WriteError", "open_out")
  /\ ~Exists(fs, DeepPath)
  /\ Parent(DeepPath) \notin dirs

\* C5 as stated: a successful md2html on a non-empty valid input writes a
\* non-empty file.
C5_NonEmptyInput ==
  \A t \in Threads :
    (Done(t) /\ op[t] = "md2html" /\ err[t] = NoErr
       /\ fs0[t][md_file[t]] # <<>>) =>
      fs[output_file[t]] # <<>>

\* C5 amended: a successful md2html writes a non-empty file whenever the
\* transformer's result for the input is non-empty.
C5_NonEmptyResult ==
  \A t \in Threads :
    (Done(t) /\ op[t] = "md2html" /\ err[t] = NoErr
       /\ Markdown(InputText(t)) # <<>>) =>
      fs[output_file[t]] # <<>>

C5_Witness ==
  /\ Done(1) /\ op[1] = "md2html" /\ err[1] = NoErr
  /\ fs0[1][md_file[1]] = <<32, 62>>
  /\ Len(fs[output_file[1]]) > 0

\* What o(i, u) does on file system f with directories d when nothing else
\* runs; k is the number of bytes after which the device fails, -1 for never.
Alone(o, f, d, i, u, k) ==
  LET dec == Utf8Decode(f[i])
      out == Converted(o, dec.text)
  IN  IF ~Exists(f, i)
        THEN [err |-> [kind |-> "FileNotFoundError", step |-> "read"],
              file |-> f[u], printed |-> FALSE]
      ELSE IF ~dec.ok
        THEN [err |-> [kind |-> "UnicodeDecodeError", step |-> "read"],
              file |-> f[u], printed |-> FALSE]
      ELSE IF Rejects(dec.text)
        THEN [err |-> [kind |-> IF o = "md2pdf" THEN "RenderError"
                                ELSE "TransformError",
                       step |-> "convert"],
              file |-> f[u], printed |-> FALSE]
      ELSE IF Parent(u) \notin d
        THEN [err |-> [kind |-> "WriteError", step |-> "open_out"],
              file |-> f[u], printed |-> FALSE]
      ELSE IF k >= 0 /\ k < Len(out)
        THEN [err |-> [kind |-> "WriteError", step |-> "write"],
              file |-> SubSeq(out, 1, k), printed |-> FALSE]
      ELSE [err |-> NoErr, file |-> out, printed |-> o = "md2pdf"]

\* The outcome of the finished call of t.
Outcome(t) ==
  [err |-> err[t], file |-> fs[output_file[t]],
   printed |-> \E n \in 1..Len(stdout) : stdout[n] = Line(output_file[t])]

\* C6: md2pdf and md2html running at the same time on different files each
\* end as they would have alone, under every interleaving of their steps.
C6_AsIfAlone ==
  \A t \in Threads :
    Done(t) =>
      \E k \in -1..MaxOut :
        Outcome(t) = Alone(op[t], fs0[t], {Cwd}, md_file[t], output_file[t], k)

C6_Witness ==
  /\ Done(1) /\ Done(2)
  /\ op[1] = "md2pdf" /\ op[2] = "md2html"
  /\ err[1] = NoErr /\ err[2] = NoErr
  /\ fs[OutPath] = MarkdownPdf(<<233>>)
  /\ fs[OutPath2] = <<>>
  /\ fs0[2][OutPath] # fs[OutPath]

\* C7: the steps of a call start in program order; an exception ends the
\* call at the step it came from, so no later step runs and nothing is
\* printed; a call that ends without an exception has run every step.
C7_LinearNoCatch ==
  \A t \in Threads :
    /\ pc[t] # "idle" => IsPrefix(log[t], Steps(op[t]))
    /\ err[t] # NoErr =>
         /\ Done(t)
         /\ log[t] # <<>>
         /\ log[t][Len(log[t])] = StepOf(err[t])
    /\ (Done(t) /\ err[t] = NoErr) => log[t] = Steps(op[t])

C7_Witness ==
  /\ Done(1) /\ op[1] = "md2pdf"
  /\ Failed(1, "WriteError", "write")
  /\ log[1] = <<"read", "convert", "write">>
  /\ stdout = <<>>

\* C8: md2html never holds the input handle and the output handle together,
\* and holds no handle once the call has ended, however it ended.
C8_Handles ==
  \A t \in Threads :
    op[t] = "md2html" =>
      /\ handles[t] # {"in", "out"}
      /\ Done(t) => handles[t] = {}

C8_Witness ==
  /\ Done(1) /\ op[1] = "md2html"
  /\ Failed(1, "UnicodeDecodeError", "read")
  /\ handles[1] = {}

\* C9: a call that fails while writing ends with a file at output_file that
\* holds a proper prefix of the output, possibly no byte at all; the file is
\* neither removed nor restored.
C9_PartialOutputStays ==
  \A t \in Threads :
    (Done(t) /\ Failed(t, "WriteError", "write")) =>
      /\ Exists(fs, output_file[t])
      /\ IsPrefix(fs[output_file[t]], output[Frame(t)])
      /\ Len(fs[output_file[t]]) < Len(output[Frame(t)])

C9_Witness ==
  /\ Done(1) /\ op[1] = "md2html"
  /\ Failed(1, "WriteError", "write")
  /\ fs0[1][output_file[1]] = OldContent
  /\ fs[output_file[1]] = <<60, 112>>

\* C10: md2html that fails in the read or in the transformation leaves the
\* output path as it was: an existing file keeps its bytes, none is created.
C10_OutputUntouched ==
  \A t \in Threads :
    (Done(t) /\ op[t] = "md2html" /\ err[t].step \in {"read", "convert"}) =>
      fs[output_file[t]] = fs0[t][output_file[t]]

C10_Witness ==
  /\ Done(1) /\ op[1] = "md2html"
  /\ Failed(1, "TransformError", "convert")
  /\ md_file[1] # output_file[1]
  /\ fs0[1][output_file[1]] = OldContent
  /\ fs[output_file[1]] = OldContent

====
